---------------------------- MODULE Spec2Model ----------------------------
(***************************************************************************)
(* A model of the ray tracer in src/main.py: the Vector helpers, the       *)
(* Sphere and Floor intersection routines and Camera.render.               *)
(*                                                                         *)
(* Python floats are modelled as fixed-point numbers: the integer n stands *)
(* for the real n / Scale.  Every float operation of the source becomes    *)
(* the corresponding fixed-point operation (FMul, FDiv, FSqrt, FPow), and  *)
(* int() is truncation towards zero.                                       *)
(***************************************************************************)
EXTENDS Integers, Sequences, FiniteSets, TLC

\* Fixed-point resolution: n stands for n / Scale.
Scale == 100

\* Largest max_bounces a camera is constructed with.
MaxBounces == 2

\* ------------------------------------------------------------------------
\* Number helpers

Abs(x) == IF x < 0 THEN -x ELSE x

Min(a, b) == IF a <= b THEN a ELSE b

\* Quotient truncated towards zero (b # 0).
Div(a, b) ==
    IF (a >= 0) = (b > 0) THEN Abs(a) \div Abs(b) ELSE -(Abs(a) \div Abs(b))

\* The fixed-point number n / d.
Frac(n, d) == Div(n * Scale, d)

RECURSIVE SqrtIter(_, _, _)
SqrtIter(n, lo, hi) ==
    IF lo >= hi THEN lo
    ELSE LET mid == (lo + hi + 1) \div 2
         IN  IF mid * mid <= n THEN SqrtIter(n, mid, hi)
             ELSE SqrtIter(n, lo, mid - 1)

\* Integer square root of n >= 0.
Isqrt(n) == SqrtIter(n, 0, Min(n, 46340))

\* x * y
FMul(x, y) == Div(x * y, Scale)

\* x / y (y # 0)
FDiv(x, y) == Div(x * Scale, y)

\* x ** 0.5 (x >= 0)
FSqrt(x) == Isqrt(x * Scale)

RECURSIVE FPowInt(_, _)
FPowInt(x, n) == IF n = 0 THEN Scale ELSE FMul(x, FPowInt(x, n - 1))

\* x ** e for x >= 0 and an exponent e that is a multiple of one half
FPow(x, e) ==
    IF e % Scale = 0 THEN FPowInt(x, e \div Scale)
    ELSE FMul(FPowInt(x, e \div Scale), FSqrt(x))

\* int(x)
Trunc(x) == Div(x, Scale)

\* ------------------------------------------------------------------------
\* class Vector (vectors are triples)

VAdd(vec1, vec2) == <<vec1[1] + vec2[1], vec1[2] + vec2[2], vec1[3] + vec2[3]>>

VSub(vec1, vec2) == <<vec1[1] - vec2[1], vec1[2] - vec2[2], vec1[3] - vec2[3]>>

VMultiply(vec1, vec2) ==
    <<FMul(vec1[1], vec2[1]), FMul(vec1[2], vec2[2]), FMul(vec1[3], vec2[3])>>

VScale(vec, x) == <<FMul(vec[1], x), FMul(vec[2], x), FMul(vec[3], x)>>

VLength(vec) ==
    FSqrt(FMul(vec[1], vec[1]) + FMul(vec[2], vec[2]) + FMul(vec[3], vec[3]))

VDot(vec1, vec2) ==
    LET m == VMultiply(vec1, vec2) IN m[1] + m[2] + m[3]

\* Vector.normalize divides by the length; it raises ZeroDivisionError when the
\* length is zero, which callers test with CanNormalize.
CanNormalize(vec) == VLength(vec) # 0

VNormalize(vec) ==
    LET length == VLength(vec)
    IN  <<FDiv(vec[1], length), FDiv(vec[2], length), FDiv(vec[3], length)>>

Zero3 == <<0, 0, 0>>

\* ------------------------------------------------------------------------
\* Scene objects.  A primitive is a record
\*   [id, type, origin, color, specular, reflectivity, roughness, radius]
\* (id stands for the Python object's identity; radius is read for spheres
\* only).  The result of get_intersection is a record [kind, p, dir, obj]:
\* kind "hit" for the tuple (p, reflect_dir, self), "none" for None, and the
\* name of the exception when the call raises.

NoObj ==
    [id |-> 0, type |-> "none", origin |-> Zero3, color |-> Zero3, specular |-> 0,
     reflectivity |-> 0, roughness |-> 0, radius |-> 0]

NoHit == [kind |-> "none", p |-> Zero3, dir |-> Zero3, obj |-> NoObj]

Raised(exc) == [kind |-> exc, p |-> Zero3, dir |-> Zero3, obj |-> NoObj]

Hit(p, reflect_dir, self) == [kind |-> "hit", p |-> p, dir |-> reflect_dir, obj |-> self]

FloorUp == <<0, Scale, 0>>

FloorNormal == <<0, -Scale, 0>>

\* Floor.get_normal
FloorGetNormal(self, point) == FloorNormal

\* Floor.get_intersection
FloorGetIntersection(self, ray_dir, ray_origin) ==
    IF VDot(ray_dir, FloorUp) <= 0 THEN NoHit
    ELSE LET dif_y == self.origin[2] - ray_origin[2]
             dif_x == FMul(FDiv(dif_y, ray_dir[2]), ray_dir[1])
             dif_z == FMul(FDiv(dif_y, ray_dir[2]), ray_dir[3])
             p1 == VAdd(ray_origin, <<dif_x, dif_y, dif_z>>)
             reflect_dir ==
                 VSub(ray_dir, VScale(FloorNormal, VDot(ray_dir, FloorNormal) * 2))
         IN  Hit(p1, reflect_dir, self)

\* Sphere.get_normal (the caller checks CanNormalize)
SphereGetNormal(self, point) == VNormalize(VSub(point, self.origin))

\* The distance from the ray origin to the intersection, line 226
SphereDistance(b, radius, c) == b - FSqrt(radius - c)

\* Sphere.get_intersection
SphereGetIntersection(self, ray_dir, ray_origin) ==
    LET a == VSub(self.origin, ray_origin)
        b == VDot(a, ray_dir)
        c2 == FMul(VLength(a), VLength(a)) - FMul(b, b)
    IN  IF b < 0 THEN NoHit
        \* a negative number ** 0.5 is a complex number, and comparing it with
        \* the radius raises TypeError
        ELSE IF c2 < 0 THEN Raised("TypeError")
        ELSE LET c == FSqrt(c2)
             IN  IF c > self.radius THEN NoHit
                 ELSE LET d == SphereDistance(b, self.radius, c)
                          p == VAdd(ray_origin, VScale(ray_dir, d))
                      IN  IF ~CanNormalize(VSub(p, self.origin))
                          THEN Raised("ZeroDivisionError")
                          ELSE LET normal == SphereGetNormal(self, p)
                                   reflect_dir ==
                                       VSub(ray_dir,
                                            VScale(normal, VDot(ray_dir, normal) * 2))
                               IN  Hit(p, reflect_dir, self)

\* Dynamic dispatch of spatial_obj.get_intersection(ray_dir, ray_origin)
GetIntersection(self, ray_dir, ray_origin) ==
    IF self.type = "Sphere" THEN SphereGetIntersection(self, ray_dir, ray_origin)
    ELSE IF self.type = "Floor" THEN FloorGetIntersection(self, ray_dir, ray_origin)
    ELSE NoHit

\* Dynamic dispatch of obj.get_normal(point)
GetNormal(self, point) ==
    IF self.type = "Sphere" THEN SphereGetNormal(self, point)
    ELSE FloorGetNormal(self, point)


\* ------------------------------------------------------------------------
\* State

VARIABLES
    pc,               \* where the program is
    err,              \* the exception that ended the program, if any
    cam,              \* the Camera object
    objects, lights,  \* the arguments of render
    view_plane_width, view_plane_height, update_freq, row, col, progress,
    ray_origin, ray_dir, reflected_colors, energy, bounce,
    intersections, near_intersect, point_color,
    light_idx, blocked_cnt, sample, shadow_idx, rand_dir,
    canvas,           \* how often canvas.point was called on each (col, row)
    pixel,            \* the arguments of the last canvas.point call
    hit_objs,         \* history: the surfaces hit so far by the current pixel's ray
    q_obj, q_dir, q_origin, q_res   \* one get_intersection call and its result

camVars == <<cam, objects, lights>>

rowVars == <<view_plane_width, view_plane_height, update_freq, row, col, progress>>

rayVars == <<ray_origin, ray_dir, reflected_colors, energy, bounce, hit_objs>>

hitVars == <<intersections, near_intersect, point_color>>

shadeVars == <<light_idx, blocked_cnt, sample, shadow_idx, rand_dir>>

outVars == <<canvas, pixel>>

qVars == <<q_obj, q_dir, q_origin, q_res>>

vars == <<pc, err, camVars, rowVars, rayVars, hitVars, shadeVars, outVars, qVars>>

NoErr == [exc |-> "none", line |-> 0]

NoPixel == [col |-> -1, row |-> -1, r |-> 0, g |-> 0, b |-> 0]

\* ------------------------------------------------------------------------
\* The scenes and cameras the program is run on

V(x, y, z) == <<x * Scale, y * Scale, z * Scale>>

Sphere(id, origin, radius, color, specular, reflectivity, roughness) ==
    [id |-> id, type |-> "Sphere", origin |-> origin, color |-> color,
     specular |-> specular, reflectivity |-> reflectivity, roughness |-> roughness,
     radius |-> radius]

Floor(id, origin, color, specular, reflectivity, roughness) ==
    [id |-> id, type |-> "Floor", origin |-> origin, color |-> color,
     specular |-> specular, reflectivity |-> reflectivity, roughness |-> roughness,
     radius |-> 0]

Light(origin, color, max_distance, power) ==
    [origin |-> origin, color |-> color, max_distance |-> max_distance, power |-> power]

Grey == <<Frac(1, 2), Frac(1, 2), Frac(1, 2)>>

White == <<Scale, Scale, Scale>>

\* math.tan(fov / 2) for the field of view the cameras use, the default
\* fov=2.0944 of Camera.__init__: tan(1.0472) = 1.7321
DefaultFov == Frac(20944, 10000)

TanHalf(fov) == Frac(17321, 10000)

\* Camera(...): __init__ stores its arguments and checks nothing
Camera(canvas_size, max_bounces, shadow_resolution) ==
    [origin |-> V(0, 5, 0), canvas_offset |-> Frac(1, 2), canvas_size |-> canvas_size,
     fov |-> DefaultFov, max_bounces |-> max_bounces,
     shadow_resolution |-> shadow_resolution]

\* canvas_size = (width, height)
CanvasSizes == {<<0, 25>>, <<1, 0>>, <<2, 1>>, <<2, 25>>}

\* shadow_resolution
ShadowResolutions == {1, 2}

\* The values random() returns, in [0, 1)
RandomValues == {0, Scale - 1}

\* like light2 of main()
Lamp == Light(V(0, -16, 16), <<2 * Scale, Frac(8, 10), Frac(8, 10)>>, 64 * Scale, Frac(1, 2))

\* a light out of reach of every surface
FarLamp == Light(V(0, -16, 16), White, Scale, Scale)

Lights == {<<>>, <<Lamp, FarLamp>>}

BallA == Sphere(1, V(0, 0, 8), 4 * Scale, White, 2 * Scale, Frac(6, 10), Frac(15, 100))

\* a second sphere in the place of the first
BallB == Sphere(2, V(0, 0, 8), 4 * Scale, Grey, 2 * Scale, Frac(1, 10), Frac(15, 100))

BallC == Sphere(3, V(0, 11, 22), 4 * Scale, White, 2 * Scale, Frac(6, 10), Frac(85, 100))

\* a small sphere between the camera and the floor
BallD == Sphere(6, V(0, 12, 4), 3 * Scale, Grey, 2 * Scale, Frac(2, 10), Frac(15, 100))

\* like the floor of main()
Ground == Floor(4, V(0, 16, 0), Grey, Scale, Frac(32, 100), Frac(85, 100))

\* a floor whose colour has a negative channel
Odd == Floor(5, V(0, 16, 0), <<-Scale, Frac(1, 2), Frac(1, 2)>>, Scale, Scale, 0)

Scenes == {<<>>, <<Ground, BallC, BallD>>, <<BallA, BallB>>, <<Odd>>}

\* ------------------------------------------------------------------------
\* Camera.render

Width == cam.canvas_size[1]

Height == cam.canvas_size[2]

Fail(exc, line) ==
    /\ pc' = "error"
    /\ err' = [exc |-> exc, line |-> line]

\* Lines 87-93: the view plane and the progress interval
RenderBegin ==
    /\ pc = "constructed"
    /\ LET vpw == FMul(2 * TanHalf(cam.fov), cam.canvas_offset)
       IN  IF Width = 0
           THEN /\ Fail("ZeroDivisionError", 89)
                /\ view_plane_width' = vpw
                /\ UNCHANGED <<view_plane_height, update_freq, row>>
           ELSE /\ view_plane_width' = vpw
                /\ view_plane_height' = Div(vpw * Height, Width)
                /\ update_freq' = Trunc(FDiv(Height * Scale, 25 * Scale))
                /\ row' = 0
                /\ pc' = "row"
                /\ err' = err
    /\ UNCHANGED <<camVars, col, progress, rayVars, hitVars, shadeVars, outVars, qVars>>

\* Lines 94-98: the next row, with the progress report
RowBegin ==
    /\ pc = "row"
    /\ row < Height
    /\ IF update_freq = 0
       THEN /\ Fail("ZeroDivisionError", 95)
            /\ UNCHANGED <<col, progress>>
       ELSE /\ progress' = IF row % update_freq = 0
                           THEN Trunc(24 * FDiv(row * Scale, Height * Scale))
                           ELSE progress
            /\ col' = 0
            /\ pc' = "col"
            /\ err' = err
    /\ UNCHANGED <<camVars, view_plane_width, view_plane_height, update_freq, row,
                   rayVars, hitVars, shadeVars, outVars, qVars>>

\* Lines 172-173: all rows are done
RenderEnd ==
    /\ pc = "row"
    /\ row >= Height
    /\ pc' = "done"
    /\ UNCHANGED <<err, camVars, rowVars, rayVars, hitVars, shadeVars, outVars, qVars>>

\* Lines 99-109: the primary ray of pixel (col, row)
PixelBegin ==
    /\ pc = "col"
    /\ col < Width
    /\ LET px_x == FMul(FDiv(col * Scale, Width * Scale), view_plane_width)
                       - FDiv(view_plane_width, 2 * Scale)
           px_y == FMul(FDiv(row * Scale, Height * Scale), view_plane_height)
                       - FDiv(view_plane_height, 2 * Scale)
           through == <<px_x, px_y, cam.canvas_offset>>
       IN  IF ~CanNormalize(through)
           THEN /\ Fail("ZeroDivisionError", 105)
                /\ UNCHANGED rayVars
           ELSE /\ ray_origin' = cam.origin
                /\ ray_dir' = VNormalize(through)
                /\ reflected_colors' = <<>>
                /\ energy' = Scale
                /\ bounce' = 0
                /\ hit_objs' = <<>>
                /\ pc' = "bounce"
                /\ err' = err
    /\ UNCHANGED <<camVars, rowVars, hitVars, shadeVars, outVars, qVars>>

\* Line 99: the row's columns are done
RowEnd ==
    /\ pc = "col"
    /\ col >= Width
    /\ row' = row + 1
    /\ pc' = "row"
    /\ UNCHANGED <<err, camVars, view_plane_width, view_plane_height, update_freq, col,
                   progress, rayVars, hitVars, shadeVars, outVars, qVars>>

\* The loop bound off by one: range(self.max_bounces + 1)
BounceLoopDone_OffByOne(n, max_bounces) == n > max_bounces

\* Line 110: for bounce in range(self.max_bounces)
BounceLoopDone(n, max_bounces) == n >= max_bounces

\* Lines 112-116: the results of every object's get_intersection, in list order
QueryAll(objs, dir, origin) ==
    [i \in 1..Len(objs) |-> GetIntersection(objs[i], dir, origin)]

IsHit(z) == z.kind = "hit"

IsRaise(z) == z.kind \notin {"hit", "none"}

\* Line 121: the key of min()
Distance(origin, z) == VLength(VSub(origin, z.p))

\* Line 121: min(intersections, key=...) keeps the first of the smallest
RECURSIVE MinFrom(_, _, _, _)
MinFrom(zs, origin, i, best) ==
    IF i > Len(zs) THEN best
    ELSE IF Distance(origin, zs[i]) < Distance(origin, best)
         THEN MinFrom(zs, origin, i + 1, zs[i])
         ELSE MinFrom(zs, origin, i + 1, best)

\* The last of the smallest instead of the first
RECURSIVE MinFromLast(_, _, _, _)
MinFromLast(zs, origin, i, best) ==
    IF i > Len(zs) THEN best
    ELSE IF Distance(origin, zs[i]) <= Distance(origin, best)
         THEN MinFromLast(zs, origin, i + 1, zs[i])
         ELSE MinFromLast(zs, origin, i + 1, best)

NearIntersect_Last(zs, origin) == MinFromLast(zs, origin, 2, zs[1])

NearIntersect(zs, origin) == MinFrom(zs, origin, 2, zs[1])

\* Lines 110-123: one bounce finds the nearest intersection
BounceBegin ==
    /\ pc = "bounce"
    /\ ~BounceLoopDone(bounce, cam.max_bounces)
    /\ LET results == QueryAll(objects, ray_dir, ray_origin)
           raising == {i \in 1..Len(objects) : IsRaise(results[i])}
           found == SelectSeq(results, IsHit)
       IN  IF raising # {}
           THEN /\ Fail(results[CHOOSE i \in raising : \A j \in raising : i <= j].kind, 114)
                /\ UNCHANGED <<hitVars, light_idx>>
           ELSE IF Len(found) = 0
           THEN /\ intersections' = found
                /\ pc' = "write"
                /\ UNCHANGED <<err, near_intersect, point_color, light_idx>>
           ELSE /\ intersections' = found
                /\ near_intersect' = NearIntersect(found, ray_origin)
                /\ point_color' = Zero3
                /\ light_idx' = 1
                /\ pc' = "light"
                /\ err' = err
    /\ UNCHANGED <<camVars, rowVars, rayVars, blocked_cnt, sample, shadow_idx, rand_dir,
                   outVars, qVars>>

\* Line 110: the bounce loop has run max_bounces times
BounceLoopEnd ==
    /\ pc = "bounce"
    /\ BounceLoopDone(bounce, cam.max_bounces)
    /\ pc' = "write"
    /\ UNCHANGED <<err, camVars, rowVars, rayVars, hitVars, shadeVars, outVars, qVars>>

ToLight(light) == VSub(light.origin, near_intersect.p)

\* Lines 124-133: the next light, skipped when it is too far
LightBegin ==
    /\ pc = "light"
    /\ light_idx <= Len(lights)
    /\ LET light == lights[light_idx]
           to_light == ToLight(light)
       IN  IF ~CanNormalize(to_light)
           THEN /\ Fail("ZeroDivisionError", 126)
                /\ UNCHANGED <<light_idx, blocked_cnt, sample, shadow_idx>>
           ELSE IF VLength(to_light) > light.max_distance
           THEN /\ light_idx' = light_idx + 1
                /\ UNCHANGED <<pc, err, blocked_cnt, sample, shadow_idx>>
           ELSE /\ blocked_cnt' = 0
                /\ sample' = 0
                /\ shadow_idx' = 1
                /\ pc' = "shadow"
                /\ UNCHANGED <<err, light_idx>>
    /\ UNCHANGED <<camVars, rowVars, rayVars, hitVars, rand_dir, outVars, qVars>>

\* Lines 136-137: the perturbation of one shadow ray, from three random() calls
RandVec(r, roughness) ==
    [i \in 1..3 |-> FMul(r[i], roughness) - FDiv(roughness, 2 * Scale)]

\* Lines 134-141: one shadow object of one sample, with its own random
\* direction
ShadowQuery ==
    /\ pc = "shadow"
    /\ sample < cam.shadow_resolution
    /\ shadow_idx <= Len(objects)
    /\ \E r1 \in RandomValues, r2 \in RandomValues, r3 \in RandomValues :
          LET light_dir == VNormalize(ToLight(lights[light_idx]))
              rand_vec == RandVec(<<r1, r2, r3>>, near_intersect.obj.roughness)
              toward == VAdd(light_dir, rand_vec)
              res == GetIntersection(objects[shadow_idx], VNormalize(toward),
                                     near_intersect.p)
          IN  IF ~CanNormalize(toward)
              THEN /\ Fail("ZeroDivisionError", 138)
                   /\ UNCHANGED <<blocked_cnt, sample, shadow_idx, rand_dir>>
              ELSE /\ rand_dir' = VNormalize(toward)
                   /\ IF IsRaise(res)
                      THEN /\ Fail(res.kind, 139)
                           /\ UNCHANGED <<blocked_cnt, sample, shadow_idx>>
                      ELSE IF IsHit(res)
                      THEN /\ blocked_cnt' = blocked_cnt + 1
                           /\ sample' = sample + 1
                           /\ shadow_idx' = 1
                           /\ UNCHANGED <<pc, err>>
                      ELSE /\ shadow_idx' = IF shadow_idx = Len(objects) THEN 1
                                            ELSE shadow_idx + 1
                           /\ sample' = IF shadow_idx = Len(objects) THEN sample + 1
                                         ELSE sample
                           /\ UNCHANGED <<pc, err, blocked_cnt>>
    /\ UNCHANGED <<camVars, rowVars, rayVars, hitVars, light_idx, outVars, qVars>>

\* Lines 143-154: the strength of one light at the hit point
Strength(light, hit, ray_energy, blocked, shadow_resolution) ==
    LET to_light == VSub(light.origin, hit.p)
        shadow_intensity == Scale - FDiv(blocked * Scale, shadow_resolution * Scale)
        normal == GetNormal(hit.obj, hit.p)
        similarity == FPow(FDiv(VDot(VNormalize(to_light), normal), 2 * Scale)
                               + Frac(1, 2),
                           hit.obj.specular)
        distance_ratio == FDiv(VLength(to_light), light.max_distance)
    IN  FMul(FMul(FMul(FPow(Scale - distance_ratio, light.power), similarity),
                  ray_energy),
             shadow_intensity)

\* Lines 143-157: the samples are done; the light's colour is added
LightShade ==
    /\ pc = "shadow"
    /\ sample >= cam.shadow_resolution
    /\ LET light == lights[light_idx]
           strength == Strength(light, near_intersect, energy, blocked_cnt,
                                cam.shadow_resolution)
       IN  point_color' = VAdd(point_color,
                               VMultiply(near_intersect.obj.color,
                                         VScale(light.color, strength)))
    /\ light_idx' = light_idx + 1
    /\ pc' = "light"
    /\ UNCHANGED <<err, camVars, rowVars, rayVars, intersections, near_intersect,
                   blocked_cnt, sample, shadow_idx, rand_dir, outVars, qVars>>

\* The energy assigned instead of multiplied: energy = reflectivity
Weaken_Assign(ray_energy, obj) == obj.reflectivity

\* Line 164: energy *= near_intersect[2].reflectivity
Weaken(ray_energy, obj) == FMul(ray_energy, obj.reflectivity)

\* Lines 158-164: the bounce's colour is saved and the ray is reflected
BounceEnd ==
    /\ pc = "light"
    /\ light_idx > Len(lights)
    /\ reflected_colors' = Append(reflected_colors, point_color)
    /\ ray_origin' = near_intersect.p
    /\ ray_dir' = near_intersect.dir
    /\ energy' = Weaken(energy, near_intersect.obj)
    /\ hit_objs' = Append(hit_objs, near_intersect.obj)
    /\ bounce' = bounce + 1
    /\ pc' = "bounce"
    /\ UNCHANGED <<err, camVars, rowVars, hitVars, shadeVars, outVars, qVars>>

RECURSIVE SumChannel(_, _)
SumChannel(colors, i) ==
    IF colors = <<>> THEN 0 ELSE Head(colors)[i] + SumChannel(Tail(colors), i)

\* The average taken over the colours recorded instead of over max_bounces
Channel_OverTaken(colors, i, max_bounces) ==
    IF colors = <<>> THEN 0
    ELSE Min(255, Trunc(Div(255 * SumChannel(colors, i), Len(colors))))

\* Lines 167-169: min(255, int(255 * sum(c[i] for c in reflected_colors) / max_bounces))
Channel(colors, i, max_bounces) ==
    Min(255, Trunc(Div(255 * SumChannel(colors, i), max_bounces)))

\* Lines 166-171: the pixel is averaged and written
WritePixel ==
    /\ pc = "write"
    /\ IF cam.max_bounces = 0
       THEN /\ Fail("ZeroDivisionError", 167)
            /\ UNCHANGED <<col, outVars>>
       ELSE /\ pixel' = [col |-> col, row |-> row,
                         r |-> Channel(reflected_colors, 1, cam.max_bounces),
                         g |-> Channel(reflected_colors, 2, cam.max_bounces),
                         b |-> Channel(reflected_colors, 3, cam.max_bounces)]
            /\ canvas' = IF <<col, row>> \in DOMAIN canvas
                         THEN [canvas EXCEPT ![<<col, row>>] = @ + 1]
                         ELSE canvas @@ (<<col, row>> :> 1)
            /\ col' = col + 1
            /\ pc' = "col"
            /\ err' = err
    /\ UNCHANGED <<camVars, view_plane_width, view_plane_height, update_freq, row,
                   progress, rayVars, hitVars, shadeVars, qVars>>

\* ------------------------------------------------------------------------
\* The program: a camera and a scene are constructed and rendered

Idle ==
    /\ err = NoErr
    /\ view_plane_width = 0 /\ view_plane_height = 0 /\ update_freq = 0
    /\ row = 0 /\ col = 0 /\ progress = 0
    /\ ray_origin = Zero3 /\ ray_dir = Zero3 /\ reflected_colors = <<>>
    /\ energy = Scale /\ bounce = 0 /\ hit_objs = <<>>
    /\ intersections = <<>> /\ near_intersect = NoHit /\ point_color = Zero3
    /\ light_idx = 1 /\ blocked_cnt = 0 /\ sample = 0 /\ shadow_idx = 1
    /\ rand_dir = Zero3
    /\ canvas = <<>>
    /\ pixel = NoPixel

Init ==
    /\ pc = "constructed"
    /\ cam \in {Camera(size, max_bounces, shadow_resolution) :
                    size \in CanvasSizes, max_bounces \in 0..MaxBounces,
                    shadow_resolution \in ShadowResolutions}
    /\ objects \in Scenes
    /\ lights \in Lights
    /\ Idle
    /\ q_obj = NoObj /\ q_dir = Zero3 /\ q_origin = Zero3 /\ q_res = NoHit

Next ==
    \/ RenderBegin
    \/ RowBegin
    \/ RenderEnd
    \/ PixelBegin
    \/ RowEnd
    \/ BounceBegin
    \/ BounceLoopEnd
    \/ LightBegin
    \/ ShadowQuery
    \/ LightShade
    \/ BounceEnd
    \/ WritePixel

Spec == Init /\ [][Next]_vars

\* ------------------------------------------------------------------------
\* get_intersection on its own: one call on a primitive and a ray drawn from
\* the sets below

UnitBall == Sphere(1, V(0, 0, 10), Scale, White, Scale, Scale, 0)

WideBall == Sphere(2, V(0, 0, 10), 4 * Scale, White, Scale, Scale, 0)

LowFloor == Floor(3, V(0, 16, 0), Grey, Scale, Scale, 0)

HighFloor == Floor(4, V(0, -16, 0), Grey, Scale, Scale, 0)

QueryObjects == {UnitBall, WideBall, LowFloor, HighFloor}

QueryOrigins == {V(0, 0, 0), V(0, 5, 0), V(0, 0, 8), V(0, 0, 10), V(0, 0, 20), V(3, 0, 0)}

QueryDirs ==
    {V(1, 0, 0), V(-1, 0, 0), V(0, 1, 0), V(0, -1, 0), V(0, 0, 1), V(0, 0, -1),
     VNormalize(V(0, 1, 1)), VNormalize(V(0, -1, 1)), VNormalize(V(1, 1, 1))}

InitIntersect ==
    /\ pc = "query"
    /\ cam = Camera(<<1, 25>>, 1, 1)
    /\ objects = <<>>
    /\ lights = <<>>
    /\ Idle
    /\ q_obj \in QueryObjects
    /\ q_dir \in QueryDirs
    /\ q_origin \in QueryOrigins
    /\ q_res = NoHit

\* q_obj.get_intersection(q_dir, q_origin)
Intersect ==
    /\ pc = "query"
    /\ q_res' = GetIntersection(q_obj, q_dir, q_origin)
    /\ pc' = "answered"
    /\ UNCHANGED <<err, camVars, rowVars, rayVars, hitVars, shadeVars, outVars,
                   q_obj, q_dir, q_origin>>

SpecIntersect == InitIntersect /\ [][Intersect]_vars

\* ------------------------------------------------------------------------
\* Properties of get_intersection

QueryA == VSub(q_obj.origin, q_origin)

QueryB == VDot(QueryA, q_dir)

QueryC == FSqrt(FMul(VLength(QueryA), VLength(QueryA)) - FMul(QueryB, QueryB))

\* C1: a sphere's hit point lies at distance b - sqrt(radius^2 - c^2) along the
\* ray, and a ray aimed at the centre from outside the sphere (c = 0) hits at
\* distance (centre_distance - radius) from the ray origin.
C1_NearIntersection ==
    (pc = "answered" /\ q_obj.type = "Sphere" /\ IsHit(q_res)
        /\ VLength(QueryA) > q_obj.radius) =>
        /\ q_res.p = VAdd(q_origin,
                          VScale(q_dir,
                                 QueryB - FSqrt(FMul(q_obj.radius, q_obj.radius)
                                                    - FMul(QueryC, QueryC))))
        /\ QueryC = 0 =>
               Distance(q_origin, q_res) = VLength(QueryA) - q_obj.radius

\* C2: a hit point is never behind the ray origin: it is ray_origin + t * ray_dir
\* with t >= 0.
C2_NoHitBehindOrigin ==
    (pc = "answered" /\ IsHit(q_res)) => VDot(VSub(q_res.p, q_origin), q_dir) >= 0

\* ------------------------------------------------------------------------
\* Properties of Camera.render

Written == pixel # NoPixel

\* C3: every channel of a written pixel is an integer in [0, 255].
C3_ChannelsClamped ==
    Written => (pixel.r \in 0..255 /\ pixel.g \in 0..255 /\ pixel.b \in 0..255)

InCanvas(xy) == xy[1] \in 0..(Width - 1) /\ xy[2] \in 0..(Height - 1)

\* C4: with width >= 1, height >= 1 and max_bounces >= 1, render raises
\* nothing, writes no pixel outside the canvas and none twice, and has written
\* every pixel of the canvas when it returns.
C4_EveryPixelWritten ==
    (Width >= 1 /\ Height >= 1 /\ cam.max_bounces >= 1) =>
        /\ pc # "error"
        /\ \A xy \in DOMAIN canvas : InCanvas(xy) /\ canvas[xy] = 1
        /\ pc = "done" =>
               \A x \in 0..(Width - 1), y \in 0..(Height - 1) : <<x, y>> \in DOMAIN canvas

ConfigFault ==
    \/ Width <= 0
    \/ Height <= 0
    \/ cam.max_bounces <= 0
    \/ objects = <<>>
    \/ lights = <<>>

\* C5: with a configuration fault, rendering never starts: render is not
\* entered, no pixel is written and no exception is raised in render.
C5_FaultNeverRenders ==
    ConfigFault => (pc = "constructed" /\ ~Written /\ err = NoErr)

\* The product of the reflectivities of the first k surfaces of hits, taken
\* from 1.0 in the order of the hits
RECURSIVE ReflectivityProduct(_, _)
ReflectivityProduct(hits, k) ==
    IF k = 0 THEN Scale
    ELSE FMul(ReflectivityProduct(hits, k - 1), hits[k].reflectivity)

InPixel == pc \in {"bounce", "light", "shadow", "write"}

\* C6: within a pixel the energy is the product of the reflectivities of the
\* surfaces hit so far (1.0 before the first hit, so also at the start of every
\* pixel), the energy that shades bounce k is the product over bounces 0..k-1,
\* and with every reflectivity <= 1 a bounce never raises the energy.
C6_EnergyIsProduct ==
    /\ [](InPixel =>
              /\ energy = ReflectivityProduct(hit_objs, Len(hit_objs))
              /\ pc \in {"light", "shadow"} => Len(hit_objs) = bounce
              /\ (pc = "bounce" /\ bounce = 0) => energy = Scale)
    /\ [][(InPixel /\ InPixel'
              /\ \A i \in 1..Len(objects) : objects[i].reflectivity <= Scale)
             => energy' <= energy]_vars

C6_Witness ==
    /\ pc = "bounce"
    /\ bounce = 2
    /\ hit_objs[1].reflectivity # hit_objs[2].reflectivity
    /\ energy > 0
    /\ energy < hit_objs[1].reflectivity

\* v = int(255 * total / n), for n > 0
IsTruncatedAverage(v, total, n) ==
    IF total >= 0
    THEN v * n * Scale <= 255 * total /\ 255 * total < (v + 1) * n * Scale
    ELSE (v - 1) * n * Scale < 255 * total /\ 255 * total <= v * n * Scale

IsChannel(v, i) ==
    IF 255 * SumChannel(reflected_colors, i) >= 255 * cam.max_bounces * Scale
    THEN v = 255
    ELSE IsTruncatedAverage(v, SumChannel(reflected_colors, i), cam.max_bounces)

JustWritten == pc = "col" /\ Written /\ pixel.col = col - 1 /\ pixel.row = row

C8_OneDirectionPerSample ==
    [][(pc = "shadow" /\ sample < cam.shadow_resolution /\ shadow_idx > 1
           /\ pc' = "shadow")
          => rand_dir' = rand_dir]_vars

IndexOf(obj) == CHOOSE i \in 1..Len(objects) : objects[i].id = obj.id

Shading == pc \in {"light", "shadow"}

\* C9: while a bounce is shaded, every object the ray meets is among the
\* intersections, the selected hit is one of them, none is nearer to the ray
\* origin, and of those as near none comes earlier in the object list.
C9_NearestFirst ==
    Shading =>
        /\ \A i \in 1..Len(objects) :
               IsHit(GetIntersection(objects[i], ray_dir, ray_origin)) =>
                   \E j \in 1..Len(intersections) : intersections[j].obj = objects[i]
        /\ \E j \in 1..Len(intersections) : intersections[j] = near_intersect
        /\ \A j \in 1..Len(intersections) :
               /\ Distance(ray_origin, near_intersect) <= Distance(ray_origin, intersections[j])
               /\ Distance(ray_origin, near_intersect) = Distance(ray_origin, intersections[j])
                      => IndexOf(near_intersect.obj) <= IndexOf(intersections[j].obj)

C9_Witness ==
    /\ Shading
    /\ Len(intersections) = 2
    /\ Distance(ray_origin, intersections[1]) = Distance(ray_origin, intersections[2])
    /\ near_intersect = intersections[1]
    /\ near_intersect.obj = objects[1]

\* C10: a pixel records at most max_bounces colours, one per bounce that hit a
\* primitive; the colours change only by one being appended at the end of a
\* bounce or by the reset at the next pixel; and a bounce that finds no
\* intersection leads to the pixel's write with no further bounce.
C10_BoundedBounces ==
    /\ [](/\ Len(reflected_colors) <= cam.max_bounces
          /\ InPixel => (bounce <= cam.max_bounces /\ Len(reflected_colors) = bounce))
    /\ [][/\ reflected_colors' # reflected_colors =>
                \/ pc = "light" /\ pc' = "bounce" /\ bounce' = bounce + 1
                      /\ Len(reflected_colors') = Len(reflected_colors) + 1
                \/ pc = "col" /\ reflected_colors' = <<>>
          /\ (pc = "bounce" /\ intersections' = <<>> /\ pc' # "error") =>
                (pc' = "write" /\ bounce' = bounce)
          /\ pc = "write" => pc' \in {"col", "error"}]_vars

C10_Witness ==
    /\ pc = "write"
    /\ intersections = <<>>
    /\ Len(reflected_colors) = 1
    /\ cam.max_bounces = 2
=============================================================================
